---- MODULE Spec2Model ----
(***************************************************************************)
(* Command registration and dispatch engine of src/command.py.             *)
(*                                                                         *)
(* A Python str is modelled as a sequence of one-character strings, so     *)
(* that validity, case folding, prefix/suffix tests and splitting are      *)
(* computed character by character as the code computes them.              *)
(***************************************************************************)
EXTENDS Integers, Sequences, FiniteSets, TLC

VARIABLES
    nodes,            \* the Command objects that were registered, by identity
    _commands,        \* command.py:292  list[Command]
    _command_map,     \* command.py:293  dict[str, Command]
    _subcommand_map,  \* command.py:294  dict[Command, dict[str, Command]]
    _quit,            \* command.py:295
    pc,               \* where the program is: loading modules, in main's loop, ...
    calls,            \* number of calls made so far to register or to a mapper
    last              \* what the last call did: its inputs, result and exception

vars == <<nodes, _commands, _command_map, _subcommand_map, _quit, pc, calls, last>>

-----------------------------------------------------------------------------
(* Bounds of the model *)

\* register calls the registration specification makes
MaxRegs == 2
\* decorated definitions executed before main is entered
MaxLoad == 3
\* tokens on one input line
MaxLine == 3
\* tokens given to one mapper call
MaxArgs == 3
\* calls made to one mapper
MaxCalls == 2

-----------------------------------------------------------------------------
(* Python str operations *)

\* characters str.isspace() accepts, among those the model uses
Whitespace == {" "}
\* characters outside ASCII, among those the model uses
NonAscii == {"é"}

\* str.lower() on one character
lower_char(c) ==
    CASE c = "A" -> "a"
      [] c = "B" -> "b"
      [] c = "C" -> "c"
      [] c = "Q" -> "q"
      [] c = "X" -> "x"
      [] OTHER -> c

\* str.lower()
lower(s) == [i \in 1..Len(s) |-> lower_char(s[i])]

\* str.isascii()
isascii(s) == \A i \in 1..Len(s) : s[i] \notin NonAscii

\* len(str.split()): the number of maximal runs of non-whitespace characters
split_len(s) ==
    Cardinality({i \in 1..Len(s) :
        /\ s[i] \notin Whitespace
        /\ (i = 1 \/ s[i-1] \in Whitespace)})

\* c in s, for a one-character c
contains(s, c) == \E i \in 1..Len(s) : s[i] = c

\* s.startswith(p)
startswith(s, p) == Len(s) >= Len(p) /\ SubSeq(s, 1, Len(p)) = p

\* s.endswith("*")
endswith_star(s) == Len(s) >= 1 /\ s[Len(s)] = "*"

\* s[:-1]
drop_last(s) == SubSeq(s, 1, Len(s) - 1)

\* s.replace("-", "_")
replace_dash(s) == [i \in 1..Len(s) |-> IF s[i] = "-" THEN "_" ELSE s[i]]

\* index of the first occurrence of c in s, 0 when there is none
find(s, c) ==
    IF contains(s, c)
    THEN CHOOSE i \in 1..Len(s) : s[i] = c /\ \A j \in 1..(i-1) : s[j] # c
    ELSE 0

\* s.split(c, 1) for a c that occurs in s: <<before, after>>
split_once(s, c) ==
    <<SubSeq(s, 1, find(s, c) - 1), SubSeq(s, find(s, c) + 1, Len(s))>>

\* command.py:9-10
_valid_word(word) == word # <<>> /\ split_len(word) = 1 /\ isascii(word)

\* command.py:6-7
_valid_command(name) == _valid_word(name) /\ ~contains(name, "*")

-----------------------------------------------------------------------------
(* dict helpers *)

EmptyMap == [k \in {} |-> 0]

Put(m, k, v) == [x \in (DOMAIN m) \cup {k} |-> IF x = k THEN v ELSE m[x]]

Del(m, k) == [x \in (DOMAIN m) \ {k} |-> m[x]]

\* the elements of a sequence
Range(s) == {s[i] : i \in 1..Len(s)}

-----------------------------------------------------------------------------
(* Handler functions and their signatures (inspect.signature) *)

POS == "POSITIONAL_OR_KEYWORD"
VARPOS == "VAR_POSITIONAL"
KWONLY == "KEYWORD_ONLY"
VARKW == "VAR_KEYWORD"

\* an inspect.Parameter without a default (default is inspect._empty)
Param(name, kind) ==
    [name |-> name, kind |-> kind, has_default |-> FALSE, default |-> FALSE]

\* an inspect.Parameter with a default
ParamDefault(name, kind, default) ==
    [name |-> name, kind |-> kind, has_default |-> TRUE, default |-> default]

\* the functions command.py itself registers (command.py:363-408)
Builtins == {"help", "quit", "reload", "clear"}

\* the handlers callers register: each shape of parameter list the mappers
\* distinguish (example.py:23, example.py:36, manager.py:5 and their like)
UserFuncs == {"h_args", "h_pos", "h_req", "h_kw", "h_none"}

\* func.__name__
func_name(func) ==
    CASE func = "help"   -> <<"h", "e", "l", "p">>
      [] func = "quit"   -> <<"q", "u", "i", "t">>
      [] func = "reload" -> <<"r", "e", "l", "o", "a", "d">>
      [] func = "clear"  -> <<"c", "l", "e", "a", "r">>
      [] func = "h_args" -> <<"e", "x">>
      [] func = "h_pos"  -> <<"p", "o", "s">>
      [] func = "h_req"  -> <<"r", "e", "q">>
      [] func = "h_kw"   -> <<"k", "w">>
      [] func = "h_none" -> <<"c", "l", "e", "a", "r">>

\* inspect.signature(func).parameters, in declaration order
signature(func) ==
    CASE func = "help" ->      \* parameters: command=None; variadic positional args
            <<ParamDefault(<<"c", "o", "m", "m", "a", "n", "d">>, POS, "None"),
              Param(<<"a", "r", "g", "s">>, VARPOS)>>
      [] func \in {"quit", "reload", "clear", "h_none"} ->   \* no parameters
            <<>>
      [] func = "h_args" ->    \* parameters: variadic positional args
            <<Param(<<"a", "r", "g", "s">>, VARPOS)>>
      [] func = "h_pos" ->     \* parameters: x; keyword-only a=False
            <<Param(<<"x">>, POS), ParamDefault(<<"a">>, KWONLY, FALSE)>>
      [] func = "h_req" ->     \* parameters: keyword-only a=True, b
            <<ParamDefault(<<"a">>, KWONLY, TRUE), Param(<<"b">>, KWONLY)>>
      [] func = "h_kw" ->      \* parameters: keyword-only a=False; variadic keywords k
            <<ParamDefault(<<"a">>, KWONLY, FALSE), Param(<<"k">>, VARKW)>>

\* whether the call func(args..., kwargs...) binds its arguments; Python raises
\* TypeError before the body runs when it does not
call_binds(func, args, kwargs) ==
    LET sig == signature(func)
        npos == Cardinality({i \in 1..Len(sig) : sig[i].kind = POS})
        has_var == \E i \in 1..Len(sig) : sig[i].kind = VARPOS
        has_kw == \E i \in 1..Len(sig) : sig[i].kind = VARKW
        supplied(i) == (sig[i].kind = POS /\ i <= Len(args))
                          \/ sig[i].name \in DOMAIN kwargs
    IN  /\ (Len(args) <= npos \/ has_var)
        /\ \A k \in DOMAIN kwargs :
              IF \E i \in 1..Len(sig) : sig[i].kind = POS /\ sig[i].name = k
              THEN \A i \in 1..Len(sig) :
                      (sig[i].kind = POS /\ sig[i].name = k) => i > Len(args)
              ELSE (\E i \in 1..Len(sig) : sig[i].kind = KWONLY /\ sig[i].name = k)
                      \/ has_kw
        /\ \A i \in 1..Len(sig) :
              (sig[i].kind \in {POS, KWONLY} /\ ~sig[i].has_default) => supplied(i)

-----------------------------------------------------------------------------
(* Argument mappers *)

\* the default prefix and set_token (command.py:180, command.py:226)
prefix == <<"-">>
set_token == "="

\* ArgMapper.command setter (command.py:163-168)
params(func) == signature(func)

kw_params(func) ==
    {params(func)[i].name : i \in {j \in 1..Len(params(func)) : params(func)[j].kind = KWONLY}}

has_kwargs(func) == \E i \in 1..Len(params(func)) : params(func)[i].kind = VARKW

\* the parameters BoolMapper's command setter walks (command.py:223)
bool_default_params(func) == 1..Len(params(func))

\* BoolMapper.command setter (command.py:220-223)
_flag_defaults(func) ==
    LET ps == params(func)
        idx == bool_default_params(func)
    IN  [n \in {ps[i].name : i \in idx} |->
            LET p == ps[CHOOSE i \in idx : ps[i].name = n]
            IN  IF p.has_default THEN p.default ELSE FALSE]

\* a StringMapper that requires no flag
no_flag_minimum(func) == {}

\* StringMapper.command setter (command.py:286-290)
_flag_minimum(func) ==
    {params(func)[i].name : i \in {j \in 1..Len(params(func)) :
        params(func)[j].kind = KWONLY /\ ~params(func)[j].has_default}}

_flag_maximum(func) == kw_params(func)

\* mapper.command = command: the state a mapper of this kind holds once bound
bind(kind, func) ==
    [kind |-> kind,
     has_kwargs |-> has_kwargs(func),
     _flag_defaults |-> IF kind = "BoolMapper" THEN _flag_defaults(func) ELSE EmptyMap,
     _flag_minimum |-> IF kind = "StringMapper" THEN _flag_minimum(func) ELSE {},
     _flag_maximum |-> IF kind = "StringMapper" THEN _flag_maximum(func) ELSE {}]

\* arg.startswith(self.prefix)
is_flag(arg) == startswith(arg, prefix)

not_flag(arg) == ~is_flag(arg)

\* BoolMapper._parse_arg_name / StringMapper._parse_arg_name (command.py:186-190, 234-238)
_parse_arg_name(arg) == replace_dash(SubSeq(arg, Len(prefix) + 1, Len(arg)))

\* the value one occurrence of a flag leaves in flags (command.py:201)
toggle(flags, arg) == arg \notin DOMAIN flags \/ ~flags[arg]

\* the loop of BoolMapper.__call__ (command.py:198-201) from parse[i] on
RECURSIVE bool_loop(_, _, _, _)
bool_loop(parse, i, flags, haskw) ==
    IF i > Len(parse) THEN [raised |-> "none", flags |-> flags]
    ELSE IF ~haskw /\ parse[i] \notin DOMAIN flags
         THEN [raised |-> "UnknownFlag", flags |-> flags]
         ELSE bool_loop(parse, i + 1, Put(flags, parse[i], toggle(flags, parse[i])), haskw)

\* a flag_defaults that hands out the mapper's own dict instead of a copy
flag_defaults_shared(stored, flags) == flags

\* BoolMapper.flag_defaults (command.py:217-218): the dict the call works on is
\* a copy, so the mapper's own dict is what it was, whatever the call did to flags
flag_defaults_kept(stored, flags) == stored

\* what BoolMapper.__call__ returns or raises once its loop has ended with r
\* (command.py:200-203); kept is the mapper's _flag_defaults after the call
bool_result(m, no_parse, r) ==
    [raised |-> r.raised,
     args |-> IF r.raised = "none" THEN no_parse ELSE <<>>,
     kwargs |-> IF r.raised = "none" THEN r.flags ELSE EmptyMap,
     kept |-> flag_defaults_kept(m._flag_defaults, r.flags)]

\* parse of BoolMapper.__call__ (command.py:195)
parse_names(sel) == [i \in 1..Len(sel) |-> _parse_arg_name(sel[i])]

\* BoolMapper.__call__ (command.py:192-203)
BoolMapper_call(m, args) ==
    bool_result(m, SelectSeq(args, not_flag),
                bool_loop(parse_names(SelectSeq(args, is_flag)), 1,
                          m._flag_defaults, m.has_kwargs))

\* the pair StringMapper._parse_iter yields for the flag written name, with
\* the value written value (command.py:246-250)
flag_pair(name, value) == <<_parse_arg_name(name) \o <<set_token>> \o value, TRUE>>

\* StringMapper._parse_iter (command.py:240-253) from args[i] on, out being the
\* pairs <<arg, is_flag>> yielded so far: all the pairs, or the exception raised
RECURSIVE _parse_iter(_, _, _)
_parse_iter(args, i, out) ==
    IF i > Len(args) THEN [raised |-> "none", out |-> out]
    ELSE IF ~is_flag(args[i])
    THEN _parse_iter(args, i + 1, Append(out, <<args[i], FALSE>>))
    ELSE IF contains(args[i], set_token)
    THEN _parse_iter(args, i + 1,
            Append(out, flag_pair(split_once(args[i], set_token)[1],
                                  split_once(args[i], set_token)[2])))
    ELSE IF i + 1 > Len(args)
    THEN [raised |-> "MissingFlagValue", out |-> out]
    ELSE _parse_iter(args, i + 2, Append(out, flag_pair(args[i], args[i + 1])))

\* dict(arg.split(set_token, 1) for arg, is_flag in arg_and_flag if is_flag):
\* a later pair with the same key replaces an earlier one (command.py:258)
flags_dict(arg_and_flag) ==
    LET fl == {i \in 1..Len(arg_and_flag) : arg_and_flag[i][2]}
        key(i) == split_once(arg_and_flag[i][1], set_token)[1]
        val(i) == split_once(arg_and_flag[i][1], set_token)[2]
    IN  [k \in {key(i) : i \in fl} |->
            val(CHOOSE i \in fl : key(i) = k /\ \A j \in fl : key(j) = k => j <= i)]

is_positional(pair) == ~pair[2]

\* [arg for arg, is_flag in arg_and_flag if not is_flag] (command.py:266)
positional(arg_and_flag) ==
    [i \in 1..Len(SelectSeq(arg_and_flag, is_positional)) |->
        SelectSeq(arg_and_flag, is_positional)[i][1]]

\* a mapper call that raised
mapper_fail(m, kind) ==
    [raised |-> kind, args |-> <<>>, kwargs |-> EmptyMap, kept |-> m._flag_defaults]

\* the two checks of StringMapper.__call__ and its result (command.py:260-266)
string_result(m, pos, flags) ==
    IF m._flag_minimum \ DOMAIN flags # {} THEN mapper_fail(m, "MissingRequiredFlags")
    ELSE IF ~m.has_kwargs /\ (DOMAIN flags) \ m._flag_maximum # {}
    THEN mapper_fail(m, "UnknownFlags")
    ELSE [raised |-> "none", args |-> pos, kwargs |-> flags, kept |-> m._flag_defaults]

\* StringMapper.__call__ once _parse_iter has ended with it (command.py:257-266)
string_parsed(m, it) ==
    IF it.raised # "none" THEN mapper_fail(m, it.raised)
    ELSE string_result(m, positional(it.out), flags_dict(it.out))

\* StringMapper.__call__ (command.py:255-266)
StringMapper_call(m, args) == string_parsed(m, _parse_iter(args, 1, <<>>))

\* ArgMapper.__call__ (command.py:156-158)
ArgMapper_call(m, args) ==
    [raised |-> "none", args |-> args, kwargs |-> EmptyMap, kept |-> m._flag_defaults]

\* self.arg_mapper(raw_args...) (command.py:54)
arg_mapper_call(m, args) ==
    CASE m.kind = "BoolMapper" -> BoolMapper_call(m, args)
      [] m.kind = "StringMapper" -> StringMapper_call(m, args)
      [] OTHER -> ArgMapper_call(m, args)

\* the exceptions the mappers raise are all CommandException
MapperErrors == {"UnknownFlag", "UnknownFlags", "MissingRequiredFlags", "MissingFlagValue"}

-----------------------------------------------------------------------------
(* The registry: Command objects and the three module-level collections *)

\* Command.name (command.py:69-70): the first of its names
name_of(ns, c) == ns[c].names[1]

\* Command.aliases (command.py:75-76)
aliases(ns, c) == {ns[c].names[i] : i \in 2..Len(ns[c].names)}

\* Command.parent_prefix (command.py:104-105)
RECURSIVE parent_prefix(_, _)
parent_prefix(ns, c) ==
    IF ns[c].parent = 0 THEN <<>>
    ELSE parent_prefix(ns, ns[c].parent) \o name_of(ns, ns[c].parent) \o <<" ">>

\* parent_prefix of a Command under construction whose parent is p
prefix_under(ns, p) ==
    IF p = 0 THEN <<>> ELSE parent_prefix(ns, p) \o name_of(ns, p) \o <<" ">>

\* Command.fullname (command.py:107-108)
fullname(ns, c) == parent_prefix(ns, c) \o name_of(ns, c)

\* Command.has_subcommands (command.py:90-91)
has_subcommands(sm, c) == c \in DOMAIN sm

\* Command.subcommands (command.py:93-94): the children, each once
subcommands(sm, c) ==
    IF has_subcommands(sm, c) THEN {sm[c][k] : k \in DOMAIN sm[c]} ELSE {}

\* the parent argument of register: 0 is None, a positive number is that
\* Command, NotACommand is any other truthy object (the plain function that a
\* failed register call returned)
NotACommand == -1

\* _subcommand_map.setdefault(parent, {}) (command.py:306-307)
setdefault(sm, parent) == IF parent \in DOMAIN sm THEN sm ELSE Put(sm, parent, EmptyMap)

\* the except clause's clean-up (command.py:334-336)
clean_up(sm, parent) ==
    IF parent \in DOMAIN sm /\ DOMAIN sm[parent] = {} THEN Del(sm, parent) ELSE sm

\* what on_load() does (command.py:314-315): there is none, it returns a truthy
\* or a falsy value, or it raises
OnLoads == {"none", "true", "false", "raise_CommandException", "raise_Exception"}

\* the exceptions the except clause of register catches (command.py:330)
caught_by_register(exc) == exc # "Exception"

\* the list register appends the new command to (command.py:322)
commands_after(commands, parent, id) == Append(commands, id)

\* the names the constructor refuses (command.py:38)
invalid_names(name) == {name[i] : i \in {j \in 1..Len(name) : ~_valid_command(name[j])}}

\* the names the conflict check refuses (command.py:312-313)
conflicting_names(R, name, parent, sm) ==
    LET command_map == IF parent # 0 THEN sm[parent] ELSE R.command_map
    IN  {name[i] : i \in {j \in 1..Len(name) : name[j] \in DOMAIN command_map}}

\* register(aname, parent=, arg_mapper=, on_load=)(func) (command.py:298-341)
\* on the registry R: the registry afterwards, the exception raised inside
\* (raised), and the Command returned (returned, 0 when func is returned or
\* the exception leaves the call)
register(R, aname, parent, arg_mapper, on_load, func) ==
    LET name == IF aname # <<>> THEN aname ELSE <<func_name(func)>>
        sm == IF parent >= 1 THEN setdefault(R.subcommand_map, parent)
              ELSE R.subcommand_map
        raised ==
            IF parent = NotACommand THEN "InvalidParent"
            ELSE IF invalid_names(name) # {} THEN "InvalidName"
            ELSE IF conflicting_names(R, name, parent, sm) # {} THEN "NamingConflict"
            ELSE IF on_load = "false" THEN "LoadFailed"
            ELSE IF on_load = "raise_CommandException" THEN "CommandException"
            ELSE IF on_load = "raise_Exception" THEN "Exception"
            ELSE "none"
        id == Len(R.nodes) + 1
        command == [func |-> func, names |-> name, parent |-> parent,
                    mapper |-> bind(IF arg_mapper = "none" THEN "ArgMapper" ELSE arg_mapper, func)]
        keys == {prefix_under(R.nodes, parent) \o name[i] : i \in 1..Len(name)}
    IN  IF raised = "none"
        THEN [nodes |-> Append(R.nodes, command),
              commands |-> commands_after(R.commands, parent, id),
              command_map |-> [k \in (DOMAIN R.command_map) \cup keys |->
                                  IF k \in keys THEN id ELSE R.command_map[k]],
              subcommand_map |->
                  IF parent = 0 THEN sm
                  ELSE [sm EXCEPT ![parent] =
                          [k \in (DOMAIN sm[parent]) \cup Range(name) |->
                              IF k \in Range(name) THEN id ELSE sm[parent][k]]],
              name |-> name, raised |-> raised, returned |-> id]
        ELSE [nodes |-> R.nodes,
              commands |-> R.commands,
              command_map |-> R.command_map,
              subcommand_map |-> IF caught_by_register(raised) THEN clean_up(sm, parent) ELSE sm,
              name |-> name, raised |-> raised, returned |-> 0]

\* the registry before any module is imported
EmptyRegistry ==
    [nodes |-> <<>>, commands |-> <<>>, command_map |-> EmptyMap, subcommand_map |-> EmptyMap]

\* importing command.py registers help, quit, reload and clear (command.py:363-408)
BuiltinRegistry ==
    LET r1 == register(EmptyRegistry, <<>>, 0, "none", "none", "help")
        r2 == register(r1, <<func_name("quit"), <<"e", "x", "i", "t">>, <<"c", "l", "o", "s", "e">>>>,
                       0, "none", "none", "quit")
        r3 == register(r2, <<func_name("reload"), <<"r", "e", "l">>>>, 0, "none", "none", "reload")
    IN  register(r3, <<func_name("clear"), <<"c", "l", "s">>>>, 0, "none", "none", "clear")

\* the module-level name quit after the import: the Command register returned
quit_command == 2

\* the registry the variables hold
Registry ==
    [nodes |-> nodes, commands |-> _commands, command_map |-> _command_map,
     subcommand_map |-> _subcommand_map]

\* _command_map lookup as run and help do it (command.py:375-377, 414-415):
\* the Command, or 0 when there is none
lookup(cm, s) == IF lower(s) \in DOMAIN cm THEN cm[lower(s)] ELSE 0

-----------------------------------------------------------------------------
(* Dispatch: Command.__call__, run and the handlers' bodies *)

\* Command.has_subcommand (command.py:141-142)
has_subcommand(sm, c, command) ==
    /\ has_subcommands(sm, c)
    /\ \/ command \in DOMAIN sm[c]
       \/ (endswith_star(command) /\ drop_last(command) \in DOMAIN sm[c])

\* Command.subcommand (command.py:144-145)
subcommand(sm, c, command) ==
    sm[c][IF endswith_star(command) THEN drop_last(command) ELSE command]

\* a Command.__call__ that hands the call on whatever mode it was entered in
delegates_in_any_mode(sm, c, raw_args, no_sub) ==
    raw_args # <<>> /\ has_subcommand(sm, c, raw_args[1])

\* whether Command.__call__ hands the call on to a subcommand (command.py:49-51)
delegates(sm, c, raw_args, no_sub) ==
    raw_args # <<>> /\ ~no_sub /\ has_subcommand(sm, c, raw_args[1])

\* a subcommand that is always called with descent on
no_sub_never(scmd) == FALSE

\* the no_sub the subcommand is called with (command.py:52)
no_sub_for(scmd) == endswith_star(scmd)

\* the delegation of Command.__call__ (command.py:48-52), followed to the
\* command that maps the arguments itself; chain lists every command entered,
\* with the arguments and the mode it was entered with
RECURSIVE resolve(_, _, _, _)
resolve(sm, c, raw_args, no_sub) ==
    LET here == [node |-> c, raw_args |-> raw_args, no_sub |-> no_sub]
    IN  IF delegates(sm, c, raw_args, no_sub)
        THEN LET r == resolve(sm, subcommand(sm, c, raw_args[1]), Tail(raw_args),
                              no_sub_for(raw_args[1]))
             IN  [r EXCEPT !.chain = <<here>> \o @]
        ELSE [node |-> c, raw_args |-> raw_args, no_sub |-> no_sub, chain |-> <<here>>]

\* the commands help walks through (command.py:378-384): the command reached,
\* or 0 when an argument names no subcommand
RECURSIVE help_walk(_, _, _)
help_walk(sm, c, args) ==
    IF args = <<>> THEN c
    ELSE IF has_subcommand(sm, c, lower(args[1]))
         THEN help_walk(sm, subcommand(sm, c, lower(args[1])), Tail(args))
         ELSE 0

\* what a handler of the callers does once its arguments are bound: it
\* returns, or it raises an exception of one of the classes main tells apart
BodyOutcomes == {"none", "CommandException", "TypeError", "Exception"}

NoEffect ==
    [raised |-> "none", detail |-> "none", quit |-> FALSE, execl |-> FALSE, listed |-> <<>>]

\* the body of the handler func, called with positional arguments args
\* (command.py:366-408); body is what a caller's handler does
func_body(func, args, body) ==
    CASE func = "help" ->
            IF args = <<>> THEN [NoEffect EXCEPT !.listed = _commands]
            ELSE IF lower(args[1]) \in DOMAIN _command_map
            THEN IF help_walk(_subcommand_map, _command_map[lower(args[1])], Tail(args)) # 0
                 THEN NoEffect
                 ELSE [NoEffect EXCEPT !.raised = "CommandException", !.detail = "UnknownSubcommand"]
            ELSE [NoEffect EXCEPT !.raised = "CommandException", !.detail = "UnknownCommand"]
      [] func = "quit" -> [NoEffect EXCEPT !.quit = TRUE]
      [] func = "reload" -> [NoEffect EXCEPT !.quit = TRUE, !.execl = TRUE]
      [] func = "clear" -> NoEffect
      [] OTHER -> [NoEffect EXCEPT !.raised = body,
                                   !.detail = IF body = "none" THEN "none" ELSE "Handler"]

\* a call that reached command t.node, before its mapper has run
call_record(t) ==
    [found |-> TRUE, handler |-> t.node, chain |-> t.chain, mapped |-> t.raw_args,
     args |-> <<>>, kwargs |-> EmptyMap, kept |-> nodes[t.node].mapper._flag_defaults,
     invoked |-> FALSE, raised |-> "none", detail |-> "none",
     quit |-> FALSE, execl |-> FALSE, listed |-> <<>>]

\* self._func(args..., kwargs...) has run and had effect e (command.py:56)
invoked_record(base, e) ==
    [base EXCEPT !.invoked = TRUE, !.raised = e.raised, !.detail = e.detail,
                 !.quit = e.quit, !.execl = e.execl, !.listed = e.listed]

\* return self._func(args..., kwargs...), the mapper having returned m (command.py:54-56)
invoke(base, m, func, body) ==
    IF m.raised # "none"
    THEN [base EXCEPT !.kept = m.kept, !.raised = "CommandException", !.detail = m.raised]
    ELSE IF ~call_binds(func, m.args, m.kwargs)
    THEN [base EXCEPT !.args = m.args, !.kwargs = m.kwargs, !.kept = m.kept,
                      !.raised = "TypeError", !.detail = "Binding"]
    ELSE invoked_record([base EXCEPT !.args = m.args, !.kwargs = m.kwargs, !.kept = m.kept],
                        func_body(func, m.args, body))

\* Command.__call__ from the command t.node that does not delegate on (command.py:54-56)
call_here(t, body) ==
    invoke(call_record(t), arg_mapper_call(nodes[t.node].mapper, t.raw_args),
           nodes[t.node].func, body)

\* Command.__call__ (command.py:48-56) on command c: the command whose mapper
\* and handler were used, what they were given, and what came of it
Command_call(c, raw_args, no_sub, body) ==
    call_here(resolve(_subcommand_map, c, raw_args, no_sub), body)

\* no command is named command (command.py:418-419)
invalid_command ==
    [found |-> FALSE, handler |-> 0, chain |-> <<>>, mapped |-> <<>>,
     args |-> <<>>, kwargs |-> EmptyMap, kept |-> EmptyMap, invoked |-> FALSE,
     raised |-> "CommandException", detail |-> "InvalidCommand",
     quit |-> FALSE, execl |-> FALSE, listed |-> <<>>]

\* whether run finds command as it is written (command.py:414)
run_plain(command) == lower(command) \in DOMAIN _command_map

\* whether run finds command with its trailing star taken off (command.py:416)
run_starred(command) ==
    endswith_star(command) /\ lower(drop_last(command)) \in DOMAIN _command_map

\* run(command, args...) for a str command (command.py:410-419)
run(command, args, body) ==
    IF run_plain(command) \/ run_starred(command)
    THEN Command_call(_command_map[IF run_plain(command) THEN lower(command)
                                   ELSE lower(drop_last(command))],
                      args, ~run_plain(command), body)
    ELSE invalid_command

\* the exceptions main's try statement catches (command.py:429-434)
caught_by_main(exc) == exc \in {"CommandException", "TypeError"}

-----------------------------------------------------------------------------
(* Actions *)

Init ==
    /\ nodes = BuiltinRegistry.nodes
    /\ _commands = BuiltinRegistry.commands
    /\ _command_map = BuiltinRegistry.command_map
    /\ _subcommand_map = BuiltinRegistry.subcommand_map
    /\ _quit = FALSE
    /\ pc = "load"
    /\ calls = 0
    /\ last = [op |-> "import"]

\* one decorated definition, while the modules load
Register(aname, parent, arg_mapper, on_load, func) ==
    /\ pc = "load"
    /\ LET r == register(Registry, aname, parent, arg_mapper, on_load, func)
       IN  /\ nodes' = r.nodes
           /\ _commands' = r.commands
           /\ _command_map' = r.command_map
           /\ _subcommand_map' = r.subcommand_map
           /\ last' = [op |-> "register", name |-> r.name, parent |-> parent,
                       on_load |-> on_load, raised |-> r.raised, returned |-> r.returned]
    /\ calls' = calls + 1
    /\ UNCHANGED <<_quit, pc>>

\* the name arguments the registration specification tries: None, one name,
\* a name with an alias, and names of every kind the validity rule separates
RegNames ==
    {<<>>,
     <<<<"a">>>>, <<<<"b">>>>, <<<<"a">>, <<"b">>>>, <<<<"a">>, <<"a">>>>,
     <<<<"A">>>>, <<<<"A">>, <<"b">>>>,
     <<<<" ", "a">>>>, <<<<"a", " ", "b">>>>,
     <<<<"a", "*">>>>, <<<<"a", "=">>>>, <<<<"é">>>>,
     <<<<"b">>, <<>>>>,
     <<<<"c", "l", "s">>>>}

\* the parents it tries: None, not a Command, help, and the commands registered
\* by earlier calls
RegParents == {0, NotACommand, 1} \cup (5..Len(nodes))

NextReg ==
    \E aname \in RegNames, parent \in RegParents, on_load \in OnLoads,
       func \in {"h_args", "h_none"} :
        calls < MaxRegs /\ Register(aname, parent, "none", on_load, func)

SpecReg == Init /\ [][NextReg]_vars

-----------------------------------------------------------------------------
(* The read-eval loop of main (command.py:421-437) *)

\* main() is entered once the modules are loaded (command.py:421-423)
StartMain ==
    /\ pc = "load"
    /\ _quit' = FALSE
    /\ pc' = "input"
    /\ last' = [op |-> "prompt"]
    /\ UNCHANGED <<nodes, _commands, _command_map, _subcommand_map, calls>>

\* the mapper of command c keeps flag_defaults d
keep_flag_defaults(ns, c, d) ==
    IF c = 0 THEN ns ELSE [ns EXCEPT ![c].mapper._flag_defaults = d]

\* input("> ").strip() is empty: continue (command.py:425-427)
ReadBlank ==
    /\ pc = "input"
    /\ last' = [op |-> "line", tokens |-> <<>>]
    /\ pc' = "input"
    /\ UNCHANGED <<nodes, _commands, _command_map, _subcommand_map, _quit, calls>>

\* the try statement of main has run the line and r came of it (command.py:429-434)
Dispatched(tokens, r) ==
    /\ last' = [op |-> "line", tokens |-> tokens, found |-> r.found,
                handler |-> r.handler, chain |-> r.chain, mapped |-> r.mapped,
                args |-> r.args, kwargs |-> r.kwargs, invoked |-> r.invoked,
                raised |-> r.raised, detail |-> r.detail, quit |-> r.quit,
                listed |-> r.listed]
    /\ nodes' = keep_flag_defaults(nodes, r.handler, r.kept)
    /\ _quit' = (_quit \/ r.quit)
    /\ pc' = IF r.execl THEN "reloaded"
             ELSE IF r.raised # "none" /\ ~caught_by_main(r.raised) THEN "crashed"
             ELSE "check_quit"

\* whether run finds, under command, a command of the loading modules: the
\* bodies of help, quit, reload and clear are command.py's own
names_loaded(command) ==
    /\ run_plain(command) \/ run_starred(command)
    /\ nodes[_command_map[IF run_plain(command) THEN lower(command)
                          ELSE lower(drop_last(command))]].func \in UserFuncs

\* one line is read, split into tokens and run (command.py:425-434); an
\* exception main does not catch, or os.execl, ends the loop there
ReadLine(tokens, body) ==
    /\ pc = "input"
    /\ tokens # <<>>
    /\ IF body = "none" THEN TRUE ELSE names_loaded(tokens[1])
    /\ Dispatched(tokens, run(tokens[1], Tail(tokens), body))
    /\ UNCHANGED <<_commands, _command_map, _subcommand_map, calls>>

\* if _quit: break (command.py:436-437)
CheckQuit ==
    /\ pc = "check_quit"
    /\ pc' = IF _quit THEN "stopped" ELSE "input"
    /\ last' = [op |-> "prompt"]
    /\ UNCHANGED <<nodes, _commands, _command_map, _subcommand_map, _quit, calls>>

-----------------------------------------------------------------------------
(* The program: modules load and register their commands, then main runs *)

\* the decorated definitions of the loading modules, in the order Python
\* executes them: a plain command, a command with an alias, a command with a
\* StringMapper and a required flag, a command with a BoolMapper
LoadScript ==
    <<[aname |-> <<<<"a">>>>, arg_mapper |-> "none", func |-> "h_args"],
      [aname |-> <<<<"c">>, <<"b">>>>, arg_mapper |-> "none", func |-> "h_args"],
      [aname |-> <<<<"x">>>>, arg_mapper |-> "StringMapper", func |-> "h_req"],
      [aname |-> <<<<"b">>>>, arg_mapper |-> "BoolMapper", func |-> "h_kw"],
      [aname |-> <<<<"a">>>>, arg_mapper |-> "none", func |-> "h_none"]>>

\* the parents they name: None, or a command registered before
LoadParents == {0} \cup (5..Len(nodes))

\* the next definition of the script is executed
Load(parent) ==
    /\ calls < MaxLoad
    /\ calls < Len(LoadScript)
    /\ Register(LoadScript[calls + 1].aname, parent, LoadScript[calls + 1].arg_mapper,
                "none", LoadScript[calls + 1].func)

\* the first token of an input line: a loaded command by its name, starred,
\* in capitals and by an alias, and the commands of command.py
FirstTokens ==
    {<<"a">>, <<"a", "*">>, <<"A">>, <<"b">>,
     <<"h", "e", "l", "p">>, <<"q", "u", "i", "t">>, <<"r", "e", "l">>}

\* the tokens that follow it: names of subcommands, plain, starred and in
\* capitals, and a flag with its value
ArgTokens == {<<"c">>, <<"c", "*">>, <<"C">>, <<"x">>, <<"-", "b", "=", "v">>}

\* sequences of 0..n elements of S
SeqsUpTo(S, n) == {<<>>} \cup UNION {[1..k -> S] : k \in 1..n}

\* the input lines: a first token and up to MaxLine - 1 more
Lines ==
    {[i \in 1..(Len(rest) + 1) |-> IF i = 1 THEN t ELSE rest[i - 1]] :
        t \in FirstTokens, rest \in SeqsUpTo(ArgTokens, MaxLine - 1)}

Next ==
    \/ \E parent \in LoadParents : Load(parent)
    \/ StartMain
    \/ ReadBlank
    \/ \E tokens \in Lines, body \in BodyOutcomes : ReadLine(tokens, body)
    \/ CheckQuit

Spec == Init /\ [][Next]_vars

-----------------------------------------------------------------------------
(* The mappers on their own: one command is registered with a mapper and a
   handler, and its mapper is called as command.arg_mapper(args...) *)

MapperKinds == {"ArgMapper", "BoolMapper", "StringMapper"}

MapFuncs == {"h_args", "h_pos", "h_req", "h_kw"}

\* the command whose mapper is called: the first one registered after the import
mapped_command == 5

InitMap ==
    \E kind \in MapperKinds, func \in MapFuncs :
        /\ nodes = register(BuiltinRegistry, <<>>, 0, kind, "none", func).nodes
        /\ _commands = register(BuiltinRegistry, <<>>, 0, kind, "none", func).commands
        /\ _command_map = register(BuiltinRegistry, <<>>, 0, kind, "none", func).command_map
        /\ _subcommand_map = register(BuiltinRegistry, <<>>, 0, kind, "none", func).subcommand_map
        /\ _quit = FALSE
        /\ pc = "load"
        /\ calls = 0
        /\ last = [op |-> "idle"]

\* the mapper of command c has been called with args and m came of it
Mapped(c, args, m) ==
    /\ last' = [op |-> "map", node |-> c, kind |-> nodes[c].mapper.kind,
                func |-> nodes[c].func, tokens |-> args,
                raised |-> m.raised, args |-> m.args, kwargs |-> m.kwargs]
    /\ nodes' = keep_flag_defaults(nodes, c, m.kept)

\* command.arg_mapper(args...)
MapCall(c, args) ==
    /\ last.op = "idle"
    /\ calls < MaxCalls
    /\ Mapped(c, args, arg_mapper_call(nodes[c].mapper, args))
    /\ calls' = calls + 1
    /\ UNCHANGED <<_commands, _command_map, _subcommand_map, _quit, pc>>

\* the caller has the result
MapReturn ==
    /\ last.op = "map"
    /\ last' = [op |-> "idle"]
    /\ UNCHANGED <<nodes, _commands, _command_map, _subcommand_map, _quit, pc, calls>>

\* the tokens the mappers are given
MapTokens ==
    {<<"-", "a">>, <<"-", "b">>, <<"-", "x">>, <<"-", "z">>,
     <<"-", "b", "=", "v">>, <<"-", "z", "=", "v">>, <<"v">>}

NextMap ==
    \/ \E args \in SeqsUpTo(MapTokens, MaxArgs) : MapCall(mapped_command, args)
    \/ MapReturn

SpecMap == InitMap /\ [][NextMap]_vars

-----------------------------------------------------------------------------
(* Properties of registration *)

\* C1. Atomic registration: a register call that fails, for whatever reason
\* (an invalid name, an invalid parent, a naming conflict, an on_load that
\* returns false or raises), leaves _commands and _command_map as they were, so
\* that lookup finds nothing it did not find before, and leaves the parent's
\* number of children and its has_subcommands as they were.
C1_AtomicRegistration ==
    [][(last'.op = "register" /\ last'.returned = 0) =>
          /\ _commands' = _commands
          /\ _command_map' = _command_map
          /\ last'.parent >= 1 =>
                /\ Cardinality(subcommands(_subcommand_map', last'.parent))
                      = Cardinality(subcommands(_subcommand_map, last'.parent))
                /\ has_subcommands(_subcommand_map', last'.parent)
                      <=> has_subcommands(_subcommand_map, last'.parent)]_vars

\* a character str.lower() changes
is_upper(c) == lower_char(c) # c

\* the rule for names as the specification words it: not empty, no
\* whitespace, ASCII only, no uppercase letter, neither "*" nor "="
well_formed_name(n) ==
    /\ n # <<>>
    /\ \A i \in 1..Len(n) :
          n[i] \notin (Whitespace \cup NonAscii \cup {"*", "="}) /\ ~is_upper(n[i])

\* C2. Name validity: a register call with a name or alias that is empty or
\* contains whitespace, a non-ASCII character, an uppercase letter, "*" or "="
\* registers nothing; a call whose names are all well formed is not refused
\* for an invalid name.
C2_NameValidity ==
    last.op = "register" =>
        /\ (\E i \in 1..Len(last.name) : ~well_formed_name(last.name[i]))
              => last.returned = 0
        /\ (\A i \in 1..Len(last.name) : well_formed_name(last.name[i]))
              => last.raised # "InvalidName"

\* the map of the scope command c was registered in
scope_map(c) ==
    IF nodes[c].parent = 0 THEN _command_map ELSE _subcommand_map[nodes[c].parent]

\* C3. Scope uniqueness: no command lists the same name twice, no two
\* commands with the same parent share a name or alias, and in the map of its
\* scope every name of a command still leads to that command (no later
\* registration took it over).
C3_ScopeUniqueness ==
    /\ \A c \in 1..Len(nodes) : \A i, j \in 1..Len(nodes[c].names) :
          i # j => nodes[c].names[i] # nodes[c].names[j]
    /\ \A c, d \in 1..Len(nodes) :
          (c # d /\ nodes[c].parent = nodes[d].parent)
              => Range(nodes[c].names) \cap Range(nodes[d].names) = {}
    /\ \A c \in 1..Len(nodes) : \A n \in Range(nodes[c].names) :
          n \in DOMAIN scope_map(c) /\ scope_map(c)[n] = c

is_top_level(c) == nodes[c].parent = 0

\* the commands registered without a parent, in the order of registration
top_level_commands == SelectSeq([c \in 1..Len(nodes) |-> c], is_top_level)

\* help was run with no argument on the last line
HelpListed ==
    /\ last.op = "line" /\ last.tokens # <<>>
    /\ last.invoked /\ nodes[last.handler].func = "help" /\ last.args = <<>>

\* C5. Help listing: the list help with no arguments walks holds exactly the
\* commands registered without a parent, each once, in registration order.
C5_HelpListing == HelpListed => last.listed = top_level_commands

\* C10. Alias equivalence: for every registered command, lookup of the full
\* name built with its canonical name and lookup of the full name built with
\* any of its aliases return the same command.
C10_AliasEquivalence ==
    \A c \in 1..Len(nodes) : \A a \in aliases(nodes, c) :
        lookup(_command_map, parent_prefix(nodes, c) \o name_of(nodes, c))
            = lookup(_command_map, parent_prefix(nodes, c) \o a)

-----------------------------------------------------------------------------
(* Properties of dispatch and of the loop *)

\* the last line named a top-level command p, went on with a starred token
\* that names a child of p, and had at least one more token
StarredChild ==
    /\ last.op = "line" /\ Len(last.tokens) >= 3
    /\ lookup(_command_map, last.tokens[1]) # 0
    /\ endswith_star(last.tokens[2])
    /\ has_subcommand(_subcommand_map, lookup(_command_map, last.tokens[1]), last.tokens[2])

\* C4 as the specification states it. Star suffix disables descent: the tokens
\* "c*", "x" dispatched on a parent p of c are not delegated to c; it is p's
\* own mapper and handler that get what follows the starred token.
C4_StarKeepsParent ==
    StarredChild =>
        /\ last.handler = lookup(_command_map, last.tokens[1])
        /\ last.mapped = SubSeq(last.tokens, 3, Len(last.tokens))

\* C4. The tokens "c*", "x" dispatched on a parent p of c are delegated to c
\* with descent switched off: c is the command whose mapper and handler get
\* what follows the starred token, whether or not the next token names a child
\* of c, and p's handler does not run.
C4_StarStopsAtChild ==
    StarredChild =>
        /\ last.handler = subcommand(_subcommand_map,
                                     lookup(_command_map, last.tokens[1]), last.tokens[2])
        /\ last.mapped = SubSeq(last.tokens, 3, Len(last.tokens))
        /\ Len(last.chain) = 2 /\ last.chain[2].no_sub

\* "a c* x" was run with c a child of a and x a child of c: c's handler got "x"
C4_Witness ==
    /\ StarredChild
    /\ last.tokens = <<<<"a">>, <<"c", "*">>, <<"x">>>>
    /\ has_subcommand(_subcommand_map, last.handler, <<"x">>)
    /\ last.invoked /\ last.args = <<<<"x">>>>

\* C9. The loop of main: it is left for good only with _quit set, it reads the
\* next line only with _quit unset, _quit is set by a line exactly when that
\* line ran the quit handler, and no line of input puts an end to the loop in
\* any other way, whatever resolution, the mapper or the handler raised.
C9_ReplStateMachine ==
    /\ pc \in {"load", "input", "check_quit", "stopped", "reloaded"}
    /\ pc \in {"stopped", "reloaded"} => _quit
    /\ pc = "input" => ~_quit
    /\ (last.op = "line" /\ last.tokens # <<>>) => (_quit <=> last.quit)

\* the token t, without its trailing star if it has one
unstarred(t) == IF endswith_star(t) THEN drop_last(t) ELSE t

\* whether the first token of entry e of a chain names a child of e's command
names_child(e) ==
    /\ e.raw_args # <<>>
    /\ e.node \in DOMAIN _subcommand_map
    /\ unstarred(e.raw_args[1]) \in DOMAIN _subcommand_map[e.node]

\* a line was dispatched to a command
LineDispatched == last.op = "line" /\ last.tokens # <<>> /\ last.found

\* C11. Dispatch rule: every command a dispatch enters and leaves for a
\* subcommand was entered in normal mode with a first token that, without its
\* star, names that subcommand, which is entered with the remaining tokens and
\* in no-descent mode exactly when the token ends with a star; the command the
\* dispatch stops at was entered in no-descent mode, or without tokens, or
\* with a first token that names none of its children, and its own mapper and
\* handler get all the tokens it was entered with.
C11_DispatchRule ==
    LineDispatched =>
        /\ \A i \in 1..(Len(last.chain) - 1) :
              /\ ~last.chain[i].no_sub
              /\ names_child(last.chain[i])
              /\ last.chain[i + 1].node
                    = _subcommand_map[last.chain[i].node][unstarred(last.chain[i].raw_args[1])]
              /\ last.chain[i + 1].raw_args = Tail(last.chain[i].raw_args)
              /\ last.chain[i + 1].no_sub <=> endswith_star(last.chain[i].raw_args[1])
        /\ last.chain[Len(last.chain)].no_sub \/ ~names_child(last.chain[Len(last.chain)])
        /\ last.handler = last.chain[Len(last.chain)].node
        /\ last.mapped = last.chain[Len(last.chain)].raw_args

\* a dispatch went down two levels in normal mode and stopped at the third
\* command, the one its second token names
C11_Witness ==
    /\ LineDispatched
    /\ Len(last.chain) = 3
    /\ ~last.chain[3].no_sub
    /\ last.tokens[2] = <<"c">>
    /\ last.handler = last.chain[3].node

\* C12. Case-insensitive resolution: a line whose first token names a
\* top-level command p and whose second token, case-folded and without its
\* star, names a child of p is delegated to that child, whatever the case of
\* the letters of the second token.
C12_CaseInsensitiveResolution ==
    (/\ LineDispatched /\ Len(last.tokens) >= 2
     /\ ~last.chain[1].no_sub
     /\ last.chain[1].node \in DOMAIN _subcommand_map
     /\ lower(unstarred(last.tokens[2])) \in DOMAIN _subcommand_map[last.chain[1].node])
        => /\ Len(last.chain) >= 2
           /\ last.chain[2].node
                 = _subcommand_map[last.chain[1].node][lower(unstarred(last.tokens[2]))]

-----------------------------------------------------------------------------
(* Properties of the argument mappers *)

\* the names of the flags the scan of a StringMapper takes from tokens[i] on:
\* a flag without the set token takes the token after it as its value
RECURSIVE scanned_flags(_, _)
scanned_flags(tokens, i) ==
    IF i > Len(tokens) THEN {}
    ELSE IF ~is_flag(tokens[i]) THEN scanned_flags(tokens, i + 1)
    ELSE IF contains(tokens[i], set_token)
    THEN {_parse_arg_name(split_once(tokens[i], set_token)[1])}
            \cup scanned_flags(tokens, i + 1)
    ELSE {_parse_arg_name(tokens[i])} \cup scanned_flags(tokens, i + 2)

\* whether that scan ends on a flag with neither the set token nor a next token
RECURSIVE ends_on_bare_flag(_, _)
ends_on_bare_flag(tokens, i) ==
    IF i > Len(tokens) THEN FALSE
    ELSE IF ~is_flag(tokens[i]) \/ contains(tokens[i], set_token)
    THEN ends_on_bare_flag(tokens, i + 1)
    ELSE i = Len(tokens) \/ ends_on_bare_flag(tokens, i + 2)

\* the names of the flags in the tokens a mapper of this kind was given
flag_names(kind, tokens) ==
    IF kind = "StringMapper" THEN scanned_flags(tokens, 1)
    ELSE {_parse_arg_name(tokens[i]) : i \in {j \in 1..Len(tokens) : is_flag(tokens[j])}}

\* a BoolMapper or a StringMapper was called
FlagMapperCalled == last.op = "map" /\ last.kind \in {"BoolMapper", "StringMapper"}

\* C6. Unknown-flag rejection: a BoolMapper or StringMapper of a handler
\* without variadic keywords fails on every token list with a flag that is not
\* one of the handler's keyword-only parameters, a flag named like a
\* positional parameter included; of a handler with variadic keywords it
\* raises no unknown-flag error and every flag is in the keyword map it returns.
C6_UnknownFlagRejection ==
    FlagMapperCalled =>
        IF has_kwargs(last.func)
        THEN /\ last.raised \notin {"UnknownFlag", "UnknownFlags"}
             /\ last.raised = "none"
                   => flag_names(last.kind, last.tokens) \subseteq DOMAIN last.kwargs
        ELSE flag_names(last.kind, last.tokens) \ kw_params(last.func) # {}
                   => last.raised # "none"

\* a StringMapper of the handler with the required keyword-only parameter b
\* was called
RequiredFlagCall ==
    last.op = "map" /\ last.kind = "StringMapper" /\ last.func = "h_req"

\* the two ways of writing b = "v" give b = "v" and no positional argument
FlagBothWays ==
    last.tokens \in {<<<<"-", "b">>, <<"v">>>>, <<<<"-", "b", "=", "v">>>>}
        => /\ last.raised = "none"
           /\ last.kwargs = [k \in {<<"b">>} |-> <<"v">>]
           /\ last.args = <<>>

\* C7 as the specification states it. Required-flag enforcement: every token
\* list that supplies no flag b fails with the missing-required-flags error,
\* "-b", "v" and "-b=v" both give b = "v", and a flag without the set token
\* that is the last token fails with the missing-flag-value error.
C7_MissingRequiredAlways ==
    RequiredFlagCall =>
        /\ <<"b">> \notin scanned_flags(last.tokens, 1)
              => last.raised = "MissingRequiredFlags"
        /\ FlagBothWays
        /\ (/\ last.tokens # <<>>
            /\ is_flag(last.tokens[Len(last.tokens)])
            /\ ~contains(last.tokens[Len(last.tokens)], set_token))
              => last.raised = "MissingFlagValue"

\* C7. Required-flag enforcement: a token list whose scan ends on a flag with
\* neither the set token nor a token after it fails with the
\* missing-flag-value error, and no other list does; a list that supplies no
\* flag b fails, with the missing-required-flags error unless its scan ends
\* that way; "-b", "v" and "-b=v" both give b = "v" and no positional argument.
C7_RequiredFlagEnforcement ==
    RequiredFlagCall =>
        /\ ends_on_bare_flag(last.tokens, 1) <=> last.raised = "MissingFlagValue"
        /\ <<"b">> \notin scanned_flags(last.tokens, 1)
              => last.raised = IF ends_on_bare_flag(last.tokens, 1)
                               THEN "MissingFlagValue" ELSE "MissingRequiredFlags"
        /\ FlagBothWays

\* a lone flag that is not b was given: its value is what is missing
C7_Witness ==
    /\ RequiredFlagCall
    /\ last.tokens = <<<<"-", "z">>>>
    /\ last.raised = "MissingFlagValue"

\* the default the handler declares for f: False where it declares none
declared_default(func, f) ==
    \E i \in 1..Len(signature(func)) :
        /\ signature(func)[i].name = f
        /\ signature(func)[i].has_default
        /\ signature(func)[i].default = TRUE

\* how often the flag f is among the tokens
occurrences(tokens, f) ==
    Cardinality({i \in 1..Len(tokens) : is_flag(tokens[i]) /\ _parse_arg_name(tokens[i]) = f})

\* C8. Toggle: a BoolMapper call that succeeds returns every flag of its
\* tokens, and each flag it returns has its declared default when the flag
\* occurs an even number of times among the tokens of this call and the
\* negation of that default when it occurs an odd number of times, whatever
\* calls of the same mapper came before.
C8_Toggle ==
    (last.op = "map" /\ last.kind = "BoolMapper" /\ last.raised = "none") =>
        /\ flag_names(last.kind, last.tokens) \subseteq DOMAIN last.kwargs
        /\ \A f \in DOMAIN last.kwargs :
              last.kwargs[f] = (declared_default(last.func, f)
                                   # (occurrences(last.tokens, f) % 2 = 1))

\* the second call of a mapper got "-a" twice and returned a = False
C8_Witness ==
    /\ last.op = "map" /\ last.kind = "BoolMapper" /\ last.raised = "none"
    /\ calls = 2
    /\ last.func = "h_pos"
    /\ last.tokens = <<<<"-", "a">>, <<"-", "a">>>>
    /\ last.kwargs[<<"a">>] = FALSE

\* C13. BoolMapper keyword map: the keys of the keyword map a BoolMapper call
\* returns are the handler's keyword-only parameters and the flags of the
\* tokens, no others, and a keyword-only parameter that is not among the flags
\* has its declared default, false where it declares none.
C13_BoolKeywordMap ==
    (last.op = "map" /\ last.kind = "BoolMapper" /\ last.raised = "none") =>
        /\ DOMAIN last.kwargs
              = kw_params(last.func) \cup flag_names(last.kind, last.tokens)
        /\ \A f \in kw_params(last.func) \ flag_names(last.kind, last.tokens) :
              f \in DOMAIN last.kwargs
                 /\ last.kwargs[f] = declared_default(last.func, f)

====
